---- MODULE Spec2Model ----
(***************************************************************************)
(* A model of the epoch-based software transactional memory of stm.hpp     *)
(* (Ctx::readTx, Ctx::writeTx, ValHelper<T>) and of the driver in          *)
(* main.cpp.  Every access to an atomic (val_, valEpoch_, epoch_, the      *)
(* retry counters) and every operation on mu_ is a step of its own;        *)
(* thread-local work is folded into the adjacent step.                     *)
(***************************************************************************)
EXTENDS Integers, Sequences, FiniteSets, TLC

\* Number of iterations of the driver loops (niters in main.cpp, scaled down).
NIters == 2

Threads == {"t1", "t2", "t3"}

\* The guarded scalars: the two members of stm::Val<S>, in address order
\* (the order in which std::map iterates pendingWrites).
CellOrder == <<"x", "y">>

Cells == {CellOrder[i] : i \in 1..Len(CellOrder)}

CellIndex(c) == CHOOSE i \in 1..Len(CellOrder) : CellOrder[i] = c

\* The first cell of a non-empty set in address order.
FirstCell(S) == CHOOSE c \in S : \A d \in S : CellIndex(c) <= CellIndex(d)

-----------------------------------------------------------------------------
(* Thunks: straight-line sequences of cell operations.                     *)

Get(c) == [op |-> "get", cell |-> c, arg |-> 0]

Set(c, v) == [op |-> "set", cell |-> c, arg |-> v]

\* c = <last value read> + 1
SetInc(c) == [op |-> "setinc", cell |-> c, arg |-> 0]

\* a user exception that is not TxFailed
Throw == [op |-> "throw", cell |-> "x", arg |-> 0]

ReadTx(thunk) == [kind |-> "read", thunk |-> thunk]

WriteTx(thunk) == [kind |-> "write", thunk |-> thunk]

\* main.cpp writer: stmVal.x = i; doWork(); stmVal.y = i;
WriterThunk(i) == <<Set("x", i), Set("y", i)>>

\* main.cpp reader: int x = stmVal.x; doWork(); int y = stmVal.y;
ReaderThunk == <<Get("x"), Get("y")>>

\* c = c + 1
IncrThunk == <<Get("x"), SetInc("x")>>

\* c = 5; c.get(); c = 7; c.get()
RyowThunk == <<Set("x", 5), Get("x"), Set("x", 7), Get("x")>>

Repeat(tx, n) == [i \in 1..n |-> tx]

NoTx == << >>

ScenarioNames ==
  {"paired", "paired2", "single", "multi", "ryow", "throw", "rw", "disjoint"}

Scenario(s) ==
  CASE s = "paired" ->
         [t1 |-> [i \in 1..NIters |-> WriteTx(WriterThunk(i - 1))],
          t2 |-> Repeat(ReadTx(ReaderThunk), NIters),
          t3 |-> NoTx]
    [] s = "paired2" ->
         [t1 |-> <<WriteTx(WriterThunk(1))>>,
          t2 |-> <<ReadTx(ReaderThunk)>>,
          t3 |-> <<WriteTx(WriterThunk(2))>>]
    [] s = "single" ->
         [t1 |-> Repeat(WriteTx(IncrThunk), NIters),
          t2 |-> <<ReadTx(<<Get("x")>>)>>,
          t3 |-> <<ReadTx(<<Get("x")>>)>>]
    [] s = "multi" ->
         [t1 |-> Repeat(WriteTx(IncrThunk), NIters),
          t2 |-> Repeat(WriteTx(IncrThunk), NIters),
          t3 |-> NoTx]
    [] s = "ryow" ->
         [t1 |-> <<WriteTx(RyowThunk)>>,
          t2 |-> <<WriteTx(<<Set("x", 9)>>)>>,
          t3 |-> NoTx]
    [] s = "throw" ->
         [t1 |-> <<WriteTx(<<Get("x"), Set("y", 1), Throw>>), ReadTx(<<Get("x")>>)>>,
          t2 |-> <<ReadTx(<<Get("x"), Throw>>)>>,
          t3 |-> <<WriteTx(<<Set("x", 2)>>), WriteTx(<<Set("x", 3)>>)>>]
    [] s = "rw" ->
         [t1 |-> <<WriteTx(<<Get("x"), Set("y", 1)>>)>>,
          t2 |-> <<WriteTx(<<Set("x", 1)>>)>>,
          t3 |-> <<WriteTx(<<Get("y")>>)>>]
    [] s = "disjoint" ->
         [t1 |-> <<WriteTx(<<Get("x"), SetInc("x")>>), WriteTx(<<Set("x", 4)>>)>>,
          t2 |-> <<WriteTx(<<Get("y"), SetInc("y")>>)>>,
          t3 |-> <<ReadTx(<<Get("y")>>)>>]

-----------------------------------------------------------------------------
VARIABLES
  scenario,       \* which driver program runs
  epoch_,         \* Ctx::epoch_
  readRetries_,   \* Ctx::readRetries_
  writeRetries_,  \* Ctx::writeRetries_
  muExcl,         \* Ctx::mu_: the exclusive holder, or "none"
  muShared,       \* Ctx::mu_: the set of shared holders
  val_,           \* ValHelper<T>::val_, per cell
  valEpoch_,      \* ValHelper<T>::valEpoch_, per cell
  ctx,            \* tctx.ctx per thread: "null" or "this"
  isWrite,        \* tctx.isWrite
  epoch,          \* tctx.epoch
  pendingReads,   \* tctx.pendingReads: set of cells
  pendingWrites,  \* tctx.pendingWrites: function cell -> pending value
  pc,             \* position of each thread in readTx / writeTx
  txi,            \* index of the thread's current (or next) transaction
  ip,             \* index of the next thunk operation
  attempt,        \* 1: optimistic execution of the thunk, 2: re-execution
  ld,             \* value loaded from val_ by the get in progress
  obs,            \* values returned by get to the current thunk execution
  cursor,         \* doCommit: cells of pendingWrites still to publish
  aborted,        \* an assert failed: the process is gone
  \* history variables
  valSrc,         \* commit epoch that published the current val_ of a cell
  lastExit,       \* how the thread's last transaction left the driver
  retried,        \* the current/last writeTx incremented writeRetries_
  conflictSeen,   \* cells stamped by commits in progress at, or begun during, the optimistic attempt
  overlapped,     \* threads whose writeTx ran concurrently with this one
  nReturned,      \* number of writeTx invocations that returned normally
  serialVal       \* the cells after running the committed thunks one at a time

vars == <<scenario, epoch_, readRetries_, writeRetries_, muExcl, muShared,
          val_, valEpoch_, ctx, isWrite, epoch, pendingReads, pendingWrites,
          pc, txi, ip, attempt, ld, obs, cursor, aborted,
          valSrc, lastExit, retried, conflictSeen, overlapped, nReturned, serialVal>>

Prog(t) == Scenario(scenario)[t]

CurTx(t) == Prog(t)[txi[t]]

CurThunk(t) == CurTx(t).thunk

CurOp(t) == CurThunk(t)[ip[t]]

EmptyWrites == [c \in {} |-> 0]

\* No load in progress (the thunk's locals are out of scope).
NoLoad == [val |-> 0, src |-> 0]

Init ==
  /\ scenario \in ScenarioNames
  /\ epoch_ = 0
  /\ readRetries_ = 0
  /\ writeRetries_ = 0
  /\ muExcl = "none"
  /\ muShared = {}
  /\ val_ = [c \in Cells |-> 0]
  /\ valEpoch_ = [c \in Cells |-> 0]
  /\ ctx = [t \in Threads |-> "null"]
  /\ isWrite = [t \in Threads |-> FALSE]
  /\ epoch = [t \in Threads |-> 0]
  /\ pendingReads = [t \in Threads |-> {}]
  /\ pendingWrites = [t \in Threads |-> EmptyWrites]
  /\ pc = [t \in Threads |-> "idle"]
  /\ txi = [t \in Threads |-> 1]
  /\ ip = [t \in Threads |-> 1]
  /\ attempt = [t \in Threads |-> 1]
  /\ ld = [t \in Threads |-> NoLoad]
  /\ obs = [t \in Threads |-> << >>]
  /\ cursor = [t \in Threads |-> {}]
  /\ aborted = FALSE
  /\ valSrc = [c \in Cells |-> 0]
  /\ lastExit = [t \in Threads |-> "none"]
  /\ retried = [t \in Threads |-> FALSE]
  /\ conflictSeen = [t \in Threads |-> {}]
  /\ overlapped = [t \in Threads |-> {}]
  /\ nReturned = 0
  /\ serialVal = [c \in Cells |-> 0]


-----------------------------------------------------------------------------
(* Helpers of the cell operations.                                         *)

\* Variant of Stale: the comparison is off by one.
StaleLate(e, s) == e > s + 1

\* Variant of Stale: a write epoch equal to the start epoch is stale too.
StaleEager(e, s) == e >= s

\* getFromRead: the loaded write epoch is newer than the start epoch.
Stale(e, s) == e > s

\* std::map::emplace: inserts only when the key is absent.
Emplace(pw, c, v) ==
  IF c \in DOMAIN pw
    THEN pw
    ELSE [d \in DOMAIN pw \cup {c} |-> IF d = c THEN v ELSE pw[d]]

\* Variant of CellCanCommit: the comparison is strict.
CellCanCommitStrict(t, c) == epoch[t] > valEpoch_[c]

\* ValHelper<T>::canCommit for the cell c, on behalf of thread t.
CellCanCommit(t, c) == epoch[t] >= valEpoch_[c]

\* Variant of canCommit: the pending reads are not validated.
canCommitWritesOnly(t) ==
  \A c \in DOMAIN pendingWrites[t] : CellCanCommit(t, c)

\* impl::canCommit: every pending read and every pending write is current.
canCommit(t) ==
  /\ \A c \in pendingReads[t] : ~(valEpoch_[c] > epoch[t])
  /\ \A c \in DOMAIN pendingWrites[t] : CellCanCommit(t, c)

\* The value a set operation stores: a literal, or the last value read + 1.
SetValue(t) ==
  IF CurOp(t).op = "set"
    THEN CurOp(t).arg
    ELSE obs[t][Len(obs[t])].val + 1

\* The thread is inside writeTx.
InWriteTx(u) == pc[u] # "idle" /\ isWrite[u]

\* The thread is in the optimistic attempt of a writeTx (before its validation).
Optimistic(u) ==
  /\ InWriteTx(u)
  /\ attempt[u] = 1
  /\ pc[u] \in {"thunk", "get_epoch", "w_validate"}

\* The thread is in the optimistic execution of a transaction of either kind:
\* from its start-epoch load to its abort or validation.
InWindow(u) ==
  /\ pc[u] \in {"thunk", "get_epoch", "w_validate"}
  /\ attempt[u] = 1

\* The cells already stamped by a commit that has not stored epoch_ yet.
StampedInProgress ==
  {c \in Cells : \E w \in Threads :
     /\ pc[w] \in {"commit", "commit_val"}
     /\ c \in DOMAIN pendingWrites[w]
     /\ \/ c \notin cursor[w]
        \/ pc[w] = "commit_val" /\ c = FirstCell(cursor[w])}

HasNextTx(t) == txi[t] <= Len(Prog(t))

AtThunkOp(t) == pc[t] = "thunk" /\ ip[t] <= Len(CurThunk(t))

AtThunkEnd(t) == pc[t] = "thunk" /\ ip[t] > Len(CurThunk(t))

\* Variant of CanLock: shared holders do not keep a writer out.
CanLockDespiteShared == muExcl = "none"

\* mu_ can be taken exclusively / in shared mode.
CanLock == muExcl = "none" /\ muShared = {}

CanLockShared == muExcl = "none"

-----------------------------------------------------------------------------
(* How control leaves the driver.                                          *)

\* An exception leaves readTx / writeTx: nothing is cleaned up or unlocked.
Propagate(t, how) ==
  /\ pc' = [pc EXCEPT ![t] = "idle"]
  /\ txi' = [txi EXCEPT ![t] = @ + 1]
  /\ lastExit' = [lastExit EXCEPT ![t] = how]

\* TxFailed thrown by a get: caught on the optimistic execution, not on the
\* re-execution (readTx line 199 is inside the handler, writeTx line 235 is
\* outside the try block).
TxFailed(t) ==
  IF attempt[t] = 1
    THEN /\ pc' = [pc EXCEPT ![t] = IF isWrite[t] THEN "w_retry" ELSE "r_retry"]
         /\ UNCHANGED <<txi, lastExit>>
    ELSE Propagate(t, "abort_signal")

-----------------------------------------------------------------------------
(* Transaction entry.                                                      *)

BeginRead(t) ==
  /\ ~aborted
  /\ pc[t] = "idle" /\ HasNextTx(t) /\ CurTx(t).kind = "read"
  /\ ctx[t] = "null"
  /\ ctx' = [ctx EXCEPT ![t] = "this"]
  /\ isWrite' = [isWrite EXCEPT ![t] = FALSE]
  /\ epoch' = [epoch EXCEPT ![t] = epoch_]
  /\ pc' = [pc EXCEPT ![t] = "thunk"]
  /\ ip' = [ip EXCEPT ![t] = 1]
  /\ attempt' = [attempt EXCEPT ![t] = 1]
  /\ obs' = [obs EXCEPT ![t] = << >>]
  /\ retried' = [retried EXCEPT ![t] = FALSE]
  /\ conflictSeen' = [conflictSeen EXCEPT ![t] = StampedInProgress]
  /\ overlapped' = [overlapped EXCEPT ![t] = {}]
  /\ UNCHANGED <<scenario, epoch_, readRetries_, writeRetries_, muExcl, muShared,
                 val_, valEpoch_, pendingReads, pendingWrites, txi, ld, cursor,
                 aborted, valSrc, lastExit, nReturned, serialVal>>

BeginWrite(t) ==
  /\ ~aborted
  /\ pc[t] = "idle" /\ HasNextTx(t) /\ CurTx(t).kind = "write"
  /\ ctx[t] = "null"
  /\ ctx' = [ctx EXCEPT ![t] = "this"]
  /\ isWrite' = [isWrite EXCEPT ![t] = TRUE]
  /\ epoch' = [epoch EXCEPT ![t] = epoch_]
  /\ pc' = [pc EXCEPT ![t] = "thunk"]
  /\ ip' = [ip EXCEPT ![t] = 1]
  /\ attempt' = [attempt EXCEPT ![t] = 1]
  /\ obs' = [obs EXCEPT ![t] = << >>]
  /\ retried' = [retried EXCEPT ![t] = FALSE]
  /\ conflictSeen' = [conflictSeen EXCEPT ![t] = StampedInProgress]
  /\ overlapped' = [u \in Threads |->
                      IF u = t THEN {w \in Threads \ {t} : InWriteTx(w)}
                      ELSE IF InWriteTx(u) THEN overlapped[u] \cup {t}
                      ELSE overlapped[u]]
  /\ UNCHANGED <<scenario, epoch_, readRetries_, writeRetries_, muExcl, muShared,
                 val_, valEpoch_, pendingReads, pendingWrites, txi, ld, cursor,
                 aborted, valSrc, lastExit, nReturned, serialVal>>

\* assert(impl::tctx.ctx == nullptr) fails: the process aborts.
AssertNoRecursion(t) ==
  /\ ~aborted
  /\ pc[t] = "idle" /\ HasNextTx(t)
  /\ ctx[t] # "null"
  /\ aborted' = TRUE
  /\ UNCHANGED <<scenario, epoch_, readRetries_, writeRetries_, muExcl, muShared,
                 val_, valEpoch_, ctx, isWrite, epoch, pendingReads, pendingWrites,
                 pc, txi, ip, attempt, ld, obs, cursor,
                 valSrc, lastExit, retried, conflictSeen, overlapped, nReturned, serialVal>>

-----------------------------------------------------------------------------
(* The thunk's cell operations.                                            *)

\* getFromWrite, the cell has a pending write: return the pending value.
GetFromWriteHit(t) ==
  /\ ~aborted
  /\ AtThunkOp(t) /\ CurOp(t).op = "get"
  /\ isWrite[t] /\ CurOp(t).cell \in DOMAIN pendingWrites[t]
  /\ obs' = [obs EXCEPT ![t] = Append(@,
               [cell |-> CurOp(t).cell, val |-> pendingWrites[t][CurOp(t).cell],
                src |-> 0, own |-> TRUE])]
  /\ ip' = [ip EXCEPT ![t] = @ + 1]
  /\ UNCHANGED <<scenario, epoch_, readRetries_, writeRetries_, muExcl, muShared,
                 val_, valEpoch_, ctx, isWrite, epoch, pendingReads, pendingWrites,
                 pc, txi, attempt, ld, cursor, aborted,
                 valSrc, lastExit, retried, conflictSeen, overlapped, nReturned, serialVal>>

\* getFromRead, first half: val_.load(acquire).  In write mode the cell's
\* epoch counter is first added to pendingReads.
GetLoadVal(t) ==
  /\ ~aborted
  /\ AtThunkOp(t) /\ CurOp(t).op = "get"
  /\ ~(isWrite[t] /\ CurOp(t).cell \in DOMAIN pendingWrites[t])
  /\ pendingReads' = [pendingReads EXCEPT ![t] =
                        IF isWrite[t] THEN @ \cup {CurOp(t).cell} ELSE @]
  /\ ld' = [ld EXCEPT ![t] = [val |-> val_[CurOp(t).cell], src |-> valSrc[CurOp(t).cell]]]
  /\ pc' = [pc EXCEPT ![t] = "get_epoch"]
  /\ UNCHANGED <<scenario, epoch_, readRetries_, writeRetries_, muExcl, muShared,
                 val_, valEpoch_, ctx, isWrite, epoch, pendingWrites,
                 txi, ip, attempt, obs, cursor, aborted,
                 valSrc, lastExit, retried, conflictSeen, overlapped, nReturned, serialVal>>

\* getFromRead, second half: valEpoch_.load(relaxed), then throw or return.
GetLoadEpoch(t) ==
  /\ ~aborted
  /\ pc[t] = "get_epoch"
  /\ IF Stale(valEpoch_[CurOp(t).cell], epoch[t])
       THEN /\ TxFailed(t)
            /\ UNCHANGED <<ip, obs>>
       ELSE /\ obs' = [obs EXCEPT ![t] = Append(@,
                         [cell |-> CurOp(t).cell, val |-> ld[t].val,
                          src |-> ld[t].src, own |-> FALSE])]
            /\ ip' = [ip EXCEPT ![t] = @ + 1]
            /\ pc' = [pc EXCEPT ![t] = "thunk"]
            /\ UNCHANGED <<txi, lastExit>>
  /\ UNCHANGED <<scenario, epoch_, readRetries_, writeRetries_, muExcl, muShared,
                 val_, valEpoch_, ctx, isWrite, epoch, pendingReads, pendingWrites,
                 attempt, ld, cursor, aborted,
                 valSrc, retried, conflictSeen, overlapped, nReturned, serialVal>>

\* Variant of set: the value is also stored to the cell at once.
setEager(t) ==
  /\ ~aborted
  /\ AtThunkOp(t) /\ CurOp(t).op \in {"set", "setinc"}
  /\ pendingWrites' = [pendingWrites EXCEPT ![t] =
                         Emplace(@, CurOp(t).cell, SetValue(t))]
  /\ val_' = [val_ EXCEPT ![CurOp(t).cell] = SetValue(t)]
  /\ ip' = [ip EXCEPT ![t] = @ + 1]
  /\ UNCHANGED <<scenario, epoch_, readRetries_, writeRetries_, muExcl, muShared,
                 valEpoch_, ctx, isWrite, epoch, pendingReads,
                 pc, txi, attempt, ld, obs, cursor, aborted,
                 valSrc, lastExit, retried, conflictSeen, overlapped, nReturned, serialVal>>

\* ValHelper<T>::set: a thread-private pending write.
set(t) ==
  /\ ~aborted
  /\ AtThunkOp(t) /\ CurOp(t).op \in {"set", "setinc"}
  /\ pendingWrites' = [pendingWrites EXCEPT ![t] =
                         Emplace(@, CurOp(t).cell, SetValue(t))]
  /\ ip' = [ip EXCEPT ![t] = @ + 1]
  /\ UNCHANGED <<scenario, epoch_, readRetries_, writeRetries_, muExcl, muShared,
                 val_, valEpoch_, ctx, isWrite, epoch, pendingReads,
                 pc, txi, attempt, ld, obs, cursor, aborted,
                 valSrc, lastExit, retried, conflictSeen, overlapped, nReturned, serialVal>>

\* The thunk throws an exception of the user's: no handler in the driver.
UserThrow(t) ==
  /\ ~aborted
  /\ AtThunkOp(t) /\ CurOp(t).op = "throw"
  /\ Propagate(t, "exception")
  /\ UNCHANGED <<scenario, epoch_, readRetries_, writeRetries_, muExcl, muShared,
                 val_, valEpoch_, ctx, isWrite, epoch, pendingReads, pendingWrites,
                 ip, attempt, ld, obs, cursor, aborted,
                 valSrc, retried, conflictSeen, overlapped, nReturned, serialVal>>

-----------------------------------------------------------------------------
(* Ctx::readTx after the thunk.                                            *)

\* The optimistic execution returned: tctx.ctx = nullptr.
ReadReturn(t) ==
  /\ ~aborted
  /\ AtThunkEnd(t) /\ ~isWrite[t] /\ attempt[t] = 1
  /\ ctx' = [ctx EXCEPT ![t] = "null"]
  /\ pc' = [pc EXCEPT ![t] = "idle"]
  /\ txi' = [txi EXCEPT ![t] = @ + 1]
  /\ lastExit' = [lastExit EXCEPT ![t] = "normal"]
  /\ obs' = [obs EXCEPT ![t] = << >>]
  /\ ld' = [ld EXCEPT ![t] = NoLoad]
  /\ UNCHANGED <<scenario, epoch_, readRetries_, writeRetries_, muExcl, muShared,
                 val_, valEpoch_, isWrite, epoch, pendingReads, pendingWrites,
                 ip, attempt, cursor, aborted,
                 valSrc, retried, conflictSeen, overlapped, nReturned, serialVal>>

\* catch (TxFailed): readRetries_.fetch_add(1).
ReadRetry(t) ==
  /\ ~aborted
  /\ pc[t] = "r_retry"
  /\ readRetries_' = readRetries_ + 1
  /\ pc' = [pc EXCEPT ![t] = "r_lock_shared"]
  /\ UNCHANGED <<scenario, epoch_, writeRetries_, muExcl, muShared,
                 val_, valEpoch_, ctx, isWrite, epoch, pendingReads, pendingWrites,
                 txi, ip, attempt, ld, obs, cursor, aborted,
                 valSrc, lastExit, retried, conflictSeen, overlapped, nReturned, serialVal>>

\* mu_.lock_shared()
ReadLockShared(t) ==
  /\ ~aborted
  /\ pc[t] = "r_lock_shared"
  /\ CanLockShared
  /\ muShared' = muShared \cup {t}
  /\ pc' = [pc EXCEPT ![t] = "r_reload"]
  /\ UNCHANGED <<scenario, epoch_, readRetries_, writeRetries_, muExcl,
                 val_, valEpoch_, ctx, isWrite, epoch, pendingReads, pendingWrites,
                 txi, ip, attempt, ld, obs, cursor, aborted,
                 valSrc, lastExit, retried, conflictSeen, overlapped, nReturned, serialVal>>

\* Variant of ReadReload: the start epoch is not loaded again.
ReadReloadKeepEpoch(t) ==
  /\ ~aborted
  /\ pc[t] = "r_reload"
  /\ attempt' = [attempt EXCEPT ![t] = 2]
  /\ ip' = [ip EXCEPT ![t] = 1]
  /\ obs' = [obs EXCEPT ![t] = << >>]
  /\ pc' = [pc EXCEPT ![t] = "thunk"]
  /\ UNCHANGED <<scenario, epoch_, readRetries_, writeRetries_, muExcl, muShared,
                 val_, valEpoch_, ctx, isWrite, epoch, pendingReads, pendingWrites,
                 txi, ld, cursor, aborted,
                 valSrc, lastExit, retried, conflictSeen, overlapped, nReturned, serialVal>>

\* tctx.epoch = epoch_.load(acquire), then the thunk runs again.
ReadReload(t) ==
  /\ ~aborted
  /\ pc[t] = "r_reload"
  /\ epoch' = [epoch EXCEPT ![t] = epoch_]
  /\ attempt' = [attempt EXCEPT ![t] = 2]
  /\ ip' = [ip EXCEPT ![t] = 1]
  /\ obs' = [obs EXCEPT ![t] = << >>]
  /\ pc' = [pc EXCEPT ![t] = "thunk"]
  /\ UNCHANGED <<scenario, epoch_, readRetries_, writeRetries_, muExcl, muShared,
                 val_, valEpoch_, ctx, isWrite, pendingReads, pendingWrites,
                 txi, ld, cursor, aborted,
                 valSrc, lastExit, retried, conflictSeen, overlapped, nReturned, serialVal>>

\* The re-execution returned: mu_.unlock_shared(); tctx.ctx = nullptr.
ReadUnlockShared(t) ==
  /\ ~aborted
  /\ AtThunkEnd(t) /\ ~isWrite[t] /\ attempt[t] = 2
  /\ muShared' = muShared \ {t}
  /\ ctx' = [ctx EXCEPT ![t] = "null"]
  /\ pc' = [pc EXCEPT ![t] = "idle"]
  /\ txi' = [txi EXCEPT ![t] = @ + 1]
  /\ lastExit' = [lastExit EXCEPT ![t] = "normal"]
  /\ obs' = [obs EXCEPT ![t] = << >>]
  /\ ld' = [ld EXCEPT ![t] = NoLoad]
  /\ UNCHANGED <<scenario, epoch_, readRetries_, writeRetries_, muExcl,
                 val_, valEpoch_, isWrite, epoch, pendingReads, pendingWrites,
                 ip, attempt, cursor, aborted,
                 valSrc, retried, conflictSeen, overlapped, nReturned, serialVal>>

-----------------------------------------------------------------------------
(* Ctx::writeTx after the thunk.                                           *)

\* The optimistic execution returned: mu_.lock().
WriteLock(t) ==
  /\ ~aborted
  /\ AtThunkEnd(t) /\ isWrite[t] /\ attempt[t] = 1
  /\ CanLock
  /\ muExcl' = t
  /\ pc' = [pc EXCEPT ![t] = "w_validate"]
  /\ UNCHANGED <<scenario, epoch_, readRetries_, writeRetries_, muShared,
                 val_, valEpoch_, ctx, isWrite, epoch, pendingReads, pendingWrites,
                 txi, ip, attempt, ld, obs, cursor, aborted,
                 valSrc, lastExit, retried, conflictSeen, overlapped, nReturned, serialVal>>

\* Variant of WriteValidate: the commit epoch is the start epoch + 1.
WriteValidateFromStart(t) ==
  /\ ~aborted
  /\ pc[t] = "w_validate"
  /\ IF canCommit(t)
       THEN /\ epoch' = [epoch EXCEPT ![t] = @ + 1]
            /\ cursor' = [cursor EXCEPT ![t] = DOMAIN pendingWrites[t]]
            /\ pc' = [pc EXCEPT ![t] = "commit"]
       ELSE /\ pc' = [pc EXCEPT ![t] = "w_unlock_fail"]
            /\ UNCHANGED <<epoch, cursor>>
  /\ UNCHANGED <<scenario, epoch_, readRetries_, writeRetries_, muExcl, muShared,
                 val_, valEpoch_, ctx, isWrite, pendingReads, pendingWrites,
                 txi, ip, attempt, ld, obs, aborted,
                 valSrc, lastExit, retried, conflictSeen, overlapped, nReturned, serialVal>>

\* txSuccess = canCommit(); on success tctx.epoch = epoch_.load() + 1 and
\* doCommit starts, otherwise the lock is released and the retry follows.
WriteValidate(t) ==
  /\ ~aborted
  /\ pc[t] = "w_validate"
  /\ IF canCommit(t)
       THEN /\ epoch' = [epoch EXCEPT ![t] = epoch_ + 1]
            /\ cursor' = [cursor EXCEPT ![t] = DOMAIN pendingWrites[t]]
            /\ pc' = [pc EXCEPT ![t] = "commit"]
       ELSE /\ pc' = [pc EXCEPT ![t] = "w_unlock_fail"]
            /\ UNCHANGED <<epoch, cursor>>
  /\ UNCHANGED <<scenario, epoch_, readRetries_, writeRetries_, muExcl, muShared,
                 val_, valEpoch_, ctx, isWrite, pendingReads, pendingWrites,
                 txi, ip, attempt, ld, obs, aborted,
                 valSrc, lastExit, retried, conflictSeen, overlapped, nReturned, serialVal>>

\* Variant of CommitStoreValEpoch: the cell is stamped with the global epoch
\* instead of the commit epoch.
CommitStoreGlobalEpoch(t) ==
  /\ ~aborted
  /\ pc[t] = "commit" /\ cursor[t] # {}
  /\ valEpoch_' = [valEpoch_ EXCEPT ![FirstCell(cursor[t])] = epoch_]
  /\ pc' = [pc EXCEPT ![t] = "commit_val"]
  /\ conflictSeen' = [u \in Threads |->
                        IF u # t /\ InWindow(u)
                          THEN conflictSeen[u] \cup {FirstCell(cursor[t])}
                          ELSE conflictSeen[u]]
  /\ UNCHANGED <<scenario, epoch_, readRetries_, writeRetries_, muExcl, muShared,
                 val_, ctx, isWrite, epoch, pendingReads, pendingWrites,
                 txi, ip, attempt, ld, obs, cursor, aborted,
                 valSrc, lastExit, retried, overlapped, nReturned, serialVal>>

\* Variant of CommitStoreValEpoch: the first store of commit publishes the
\* value; the cell's write epoch is not stamped before it.
CommitStoreValueFirst(t) ==
  /\ ~aborted
  /\ pc[t] = "commit" /\ cursor[t] # {}
  /\ val_' = [val_ EXCEPT ![FirstCell(cursor[t])] = pendingWrites[t][FirstCell(cursor[t])]]
  /\ valSrc' = [valSrc EXCEPT ![FirstCell(cursor[t])] = epoch[t]]
  /\ pc' = [pc EXCEPT ![t] = "commit_val"]
  /\ UNCHANGED <<scenario, epoch_, readRetries_, writeRetries_, muExcl, muShared,
                 valEpoch_, ctx, isWrite, epoch, pendingReads, pendingWrites,
                 txi, ip, attempt, ld, obs, cursor, aborted,
                 lastExit, retried, conflictSeen, overlapped, nReturned, serialVal>>

\* ValHelper<T>::commit, first store: valEpoch_.store(tctx.epoch, relaxed).
CommitStoreValEpoch(t) ==
  /\ ~aborted
  /\ pc[t] = "commit" /\ cursor[t] # {}
  /\ valEpoch_' = [valEpoch_ EXCEPT ![FirstCell(cursor[t])] = epoch[t]]
  /\ pc' = [pc EXCEPT ![t] = "commit_val"]
  /\ conflictSeen' = [u \in Threads |->
                        IF u # t /\ InWindow(u)
                          THEN conflictSeen[u] \cup {FirstCell(cursor[t])}
                          ELSE conflictSeen[u]]
  /\ UNCHANGED <<scenario, epoch_, readRetries_, writeRetries_, muExcl, muShared,
                 val_, ctx, isWrite, epoch, pendingReads, pendingWrites,
                 txi, ip, attempt, ld, obs, cursor, aborted,
                 valSrc, lastExit, retried, overlapped, nReturned, serialVal>>

\* ValHelper<T>::commit, second store: val_.store(val, release).
CommitStoreVal(t) ==
  /\ ~aborted
  /\ pc[t] = "commit_val"
  /\ val_' = [val_ EXCEPT ![FirstCell(cursor[t])] = pendingWrites[t][FirstCell(cursor[t])]]
  /\ valSrc' = [valSrc EXCEPT ![FirstCell(cursor[t])] = epoch[t]]
  /\ cursor' = [cursor EXCEPT ![t] = @ \ {FirstCell(cursor[t])}]
  /\ pc' = [pc EXCEPT ![t] = "commit"]
  /\ UNCHANGED <<scenario, epoch_, readRetries_, writeRetries_, muExcl, muShared,
                 valEpoch_, ctx, isWrite, epoch, pendingReads, pendingWrites,
                 txi, ip, attempt, ld, obs, aborted,
                 lastExit, retried, conflictSeen, overlapped, nReturned, serialVal>>

\* The thunk run alone, from its operation i on, on the cells given: what one
\* atomic execution of the transaction leaves in the cells.
RECURSIVE SerialRun(_, _, _, _)
SerialRun(thunk, i, cells, last) ==
  IF i > Len(thunk)
    THEN cells
    ELSE CASE thunk[i].op = "get" ->
                SerialRun(thunk, i + 1, cells, cells[thunk[i].cell])
           [] thunk[i].op = "set" ->
                SerialRun(thunk, i + 1,
                          [cells EXCEPT ![thunk[i].cell] = thunk[i].arg], last)
           [] thunk[i].op = "setinc" ->
                SerialRun(thunk, i + 1,
                          [cells EXCEPT ![thunk[i].cell] = last + 1], last)
           [] OTHER -> cells

SerialExec(thunk, cells) == SerialRun(thunk, 1, cells, 0)

\* epoch_.store(tctx.epoch, release) after doCommit.  The commit takes its
\* place in the epoch order here: serialVal runs its thunk atomically.
StoreEpoch(t) ==
  /\ ~aborted
  /\ pc[t] = "commit" /\ cursor[t] = {}
  /\ epoch_' = epoch[t]
  /\ pc' = [pc EXCEPT ![t] = "w_unlock"]
  /\ serialVal' = SerialExec(CurThunk(t), serialVal)
  /\ UNCHANGED <<scenario, readRetries_, writeRetries_, muExcl, muShared,
                 val_, valEpoch_, ctx, isWrite, epoch, pendingReads, pendingWrites,
                 txi, ip, attempt, ld, obs, cursor, aborted,
                 valSrc, lastExit, retried, conflictSeen, overlapped, nReturned>>

\* Variant of WriteUnlock: pendingReads and pendingWrites are not cleared.
WriteUnlockNoClear(t) ==
  /\ ~aborted
  /\ pc[t] = "w_unlock"
  /\ muExcl' = "none"
  /\ ctx' = [ctx EXCEPT ![t] = "null"]
  /\ pc' = [pc EXCEPT ![t] = "idle"]
  /\ txi' = [txi EXCEPT ![t] = @ + 1]
  /\ lastExit' = [lastExit EXCEPT ![t] = "normal"]
  /\ obs' = [obs EXCEPT ![t] = << >>]
  /\ ld' = [ld EXCEPT ![t] = NoLoad]
  /\ nReturned' = nReturned + 1
  /\ UNCHANGED <<scenario, epoch_, readRetries_, writeRetries_, muShared,
                 val_, valEpoch_, isWrite, epoch, pendingReads, pendingWrites,
                 ip, attempt, cursor, aborted,
                 valSrc, retried, conflictSeen, overlapped, serialVal>>

\* mu_.unlock() after a commit, then the clean-up of lines 242-245.
WriteUnlock(t) ==
  /\ ~aborted
  /\ pc[t] = "w_unlock"
  /\ muExcl' = "none"
  /\ pendingReads' = [pendingReads EXCEPT ![t] = {}]
  /\ pendingWrites' = [pendingWrites EXCEPT ![t] = EmptyWrites]
  /\ ctx' = [ctx EXCEPT ![t] = "null"]
  /\ pc' = [pc EXCEPT ![t] = "idle"]
  /\ txi' = [txi EXCEPT ![t] = @ + 1]
  /\ lastExit' = [lastExit EXCEPT ![t] = "normal"]
  /\ obs' = [obs EXCEPT ![t] = << >>]
  /\ ld' = [ld EXCEPT ![t] = NoLoad]
  /\ nReturned' = nReturned + 1
  /\ UNCHANGED <<scenario, epoch_, readRetries_, writeRetries_, muShared,
                 val_, valEpoch_, isWrite, epoch,
                 ip, attempt, cursor, aborted,
                 valSrc, retried, conflictSeen, overlapped, serialVal>>

\* Variant of WriteUnlockFail: mu_ is not released before the retry.
WriteUnlockFailKeepLock(t) ==
  /\ ~aborted
  /\ pc[t] = "w_unlock_fail"
  /\ pc' = [pc EXCEPT ![t] = "w_retry"]
  /\ UNCHANGED <<scenario, epoch_, readRetries_, writeRetries_, muExcl, muShared,
                 val_, valEpoch_, ctx, isWrite, epoch, pendingReads, pendingWrites,
                 txi, ip, attempt, ld, obs, cursor, aborted,
                 valSrc, lastExit, retried, conflictSeen, overlapped, nReturned, serialVal>>

\* mu_.unlock() after a failed validation.
WriteUnlockFail(t) ==
  /\ ~aborted
  /\ pc[t] = "w_unlock_fail"
  /\ muExcl' = "none"
  /\ pc' = [pc EXCEPT ![t] = "w_retry"]
  /\ UNCHANGED <<scenario, epoch_, readRetries_, writeRetries_, muShared,
                 val_, valEpoch_, ctx, isWrite, epoch, pendingReads, pendingWrites,
                 txi, ip, attempt, ld, obs, cursor, aborted,
                 valSrc, lastExit, retried, conflictSeen, overlapped, nReturned, serialVal>>

\* if (!txSuccess): writeRetries_.fetch_add(1).
WriteRetry(t) ==
  /\ ~aborted
  /\ pc[t] = "w_retry"
  /\ writeRetries_' = writeRetries_ + 1
  /\ retried' = [retried EXCEPT ![t] = TRUE]
  /\ pc' = [pc EXCEPT ![t] = "w_retry_lock"]
  /\ UNCHANGED <<scenario, epoch_, readRetries_, muExcl, muShared,
                 val_, valEpoch_, ctx, isWrite, epoch, pendingReads, pendingWrites,
                 txi, ip, attempt, ld, obs, cursor, aborted,
                 valSrc, lastExit, conflictSeen, overlapped, nReturned, serialVal>>

\* mu_.lock() of the retry.
WriteRetryLock(t) ==
  /\ ~aborted
  /\ pc[t] = "w_retry_lock"
  /\ CanLock
  /\ muExcl' = t
  /\ pc' = [pc EXCEPT ![t] = "w_reload"]
  /\ UNCHANGED <<scenario, epoch_, readRetries_, writeRetries_, muShared,
                 val_, valEpoch_, ctx, isWrite, epoch, pendingReads, pendingWrites,
                 txi, ip, attempt, ld, obs, cursor, aborted,
                 valSrc, lastExit, retried, conflictSeen, overlapped, nReturned, serialVal>>

\* tctx.epoch = epoch_.load(relaxed), then the thunk runs again; the pending
\* reads and writes of the failed attempt are still in tctx.
WriteReload(t) ==
  /\ ~aborted
  /\ pc[t] = "w_reload"
  /\ epoch' = [epoch EXCEPT ![t] = epoch_]
  /\ attempt' = [attempt EXCEPT ![t] = 2]
  /\ ip' = [ip EXCEPT ![t] = 1]
  /\ obs' = [obs EXCEPT ![t] = << >>]
  /\ pc' = [pc EXCEPT ![t] = "thunk"]
  /\ UNCHANGED <<scenario, epoch_, readRetries_, writeRetries_, muExcl, muShared,
                 val_, valEpoch_, ctx, isWrite, pendingReads, pendingWrites,
                 txi, ld, cursor, aborted,
                 valSrc, lastExit, retried, conflictSeen, overlapped, nReturned, serialVal>>

\* Variant of WriteRetryBump: tctx.epoch is not incremented.
WriteRetryNoBump(t) ==
  /\ ~aborted
  /\ AtThunkEnd(t) /\ isWrite[t] /\ attempt[t] = 2
  /\ cursor' = [cursor EXCEPT ![t] = DOMAIN pendingWrites[t]]
  /\ pc' = [pc EXCEPT ![t] = "commit"]
  /\ UNCHANGED <<scenario, epoch_, readRetries_, writeRetries_, muExcl, muShared,
                 val_, valEpoch_, ctx, isWrite, epoch, pendingReads, pendingWrites,
                 txi, ip, attempt, ld, obs, aborted,
                 valSrc, lastExit, retried, conflictSeen, overlapped, nReturned, serialVal>>

\* The re-execution returned: tctx.epoch++, then doCommit starts.
WriteRetryBump(t) ==
  /\ ~aborted
  /\ AtThunkEnd(t) /\ isWrite[t] /\ attempt[t] = 2
  /\ epoch' = [epoch EXCEPT ![t] = @ + 1]
  /\ cursor' = [cursor EXCEPT ![t] = DOMAIN pendingWrites[t]]
  /\ pc' = [pc EXCEPT ![t] = "commit"]
  /\ UNCHANGED <<scenario, epoch_, readRetries_, writeRetries_, muExcl, muShared,
                 val_, valEpoch_, ctx, isWrite, pendingReads, pendingWrites,
                 txi, ip, attempt, ld, obs, aborted,
                 valSrc, lastExit, retried, conflictSeen, overlapped, nReturned, serialVal>>

-----------------------------------------------------------------------------
Next ==
  \E t \in Threads :
    \/ BeginRead(t)
    \/ BeginWrite(t)
    \/ AssertNoRecursion(t)
    \/ GetFromWriteHit(t)
    \/ GetLoadVal(t)
    \/ GetLoadEpoch(t)
    \/ set(t)
    \/ UserThrow(t)
    \/ ReadReturn(t)
    \/ ReadRetry(t)
    \/ ReadLockShared(t)
    \/ ReadReload(t)
    \/ ReadUnlockShared(t)
    \/ WriteLock(t)
    \/ WriteValidate(t)
    \/ CommitStoreValEpoch(t)
    \/ CommitStoreVal(t)
    \/ StoreEpoch(t)
    \/ WriteUnlock(t)
    \/ WriteUnlockFail(t)
    \/ WriteRetry(t)
    \/ WriteRetryLock(t)
    \/ WriteReload(t)
    \/ WriteRetryBump(t)

Spec == Init /\ [][Next]_vars

\* The programs whose thunks throw no exception of their own.
InitLive == Init /\ scenario # "throw"

\* One step of thread t in such a program.
ThreadStep(t) ==
  \/ BeginRead(t)
  \/ BeginWrite(t)
  \/ GetFromWriteHit(t)
  \/ GetLoadVal(t)
  \/ GetLoadEpoch(t)
  \/ set(t)
  \/ ReadReturn(t)
  \/ ReadRetry(t)
  \/ ReadLockShared(t)
  \/ ReadReload(t)
  \/ ReadUnlockShared(t)
  \/ WriteLock(t)
  \/ WriteValidate(t)
  \/ CommitStoreValEpoch(t)
  \/ CommitStoreVal(t)
  \/ StoreEpoch(t)
  \/ WriteUnlock(t)
  \/ WriteUnlockFail(t)
  \/ WriteRetry(t)
  \/ WriteRetryLock(t)
  \/ WriteReload(t)
  \/ WriteRetryBump(t)

NextLive == \E t \in Threads : ThreadStep(t)

\* Every thread keeps running: a thread whose next step stays possible takes
\* it (a thread blocked in mu_.lock() or mu_.lock_shared() gets the lock once
\* it stays free).
LiveSpec ==
  /\ InitLive
  /\ [][NextLive]_vars
  /\ \A t \in Threads : WF_vars(ThreadStep(t))

-----------------------------------------------------------------------------
(* Properties.                                                             *)

\* The thread has left the driver after its last transaction.
Finished(t) == pc[t] = "idle" /\ ~HasNextTx(t)

\* The transaction the thread ran last (defined once txi[t] > 1).
LastTx(t) == Prog(t)[txi[t] - 1]

\* The cells a thunk reads or writes, and those it writes.
Touched(thunk) ==
  {thunk[i].cell : i \in {j \in 1..Len(thunk) : thunk[j].op # "throw"}}

Written(thunk) ==
  {thunk[i].cell : i \in {j \in 1..Len(thunk) : thunk[j].op \in {"set", "setinc"}}}

\* The thunk of the transaction the thread is in, or of the one it left last.
TxThunk(t) == IF pc[t] = "idle" THEN LastTx(t).thunk ELSE CurThunk(t)

\* The number of readTx / writeTx invocations the thread has entered.
Entered(t) == IF pc[t] = "idle" THEN txi[t] - 1 ELSE txi[t]

\* The position in the thunk of its k-th get.
GetPosition(thunk, k) ==
  CHOOSE j \in 1..Len(thunk) :
    /\ thunk[j].op = "get"
    /\ Cardinality({i \in 1..j : thunk[i].op = "get"}) = k

\* The thread has returned normally from a writeTx.
ReturnedFromWrite(t) ==
  /\ pc[t] = "idle" /\ txi[t] > 1
  /\ lastExit[t] = "normal"
  /\ LastTx(t).kind = "write"

\* C1: with writers that set x and y to the same value, a reader that has read
\* x and then y in one execution of its thunk (optimistic or under the shared
\* lock) holds two equal values: the assert(x == y) of main.cpp never fires.
PairedFieldConsistency ==
  scenario \in {"paired", "paired2"} =>
    \A t \in Threads :
      (pc[t] # "idle" /\ ~isWrite[t] /\ Len(obs[t]) = 2)
        => obs[t][1].val = obs[t][2].val

\* C1 witness: a reader holds both values on its re-execution under the shared
\* lock, and they are values a writer published.
PairedFieldWitness ==
  /\ scenario \in {"paired", "paired2"}
  /\ \E t \in Threads :
       /\ pc[t] # "idle" /\ ~isWrite[t] /\ attempt[t] = 2
       /\ Len(obs[t]) = 2
       /\ obs[t][2].val > 0

\* C2: every value a get returned to a read transaction execution was
\* published by a commit whose epoch is at most the execution's start epoch
\* (or is the initial value, epoch 0).
SnapshotConsistency ==
  \A t \in Threads :
    (pc[t] # "idle" /\ ~isWrite[t])
      => \A i \in 1..Len(obs[t]) : obs[t][i].src <= epoch[t]

\* C2 witness: an optimistic read execution was handed a committed value while
\* a later commit has already stamped the cell it read.
SnapshotWitness ==
  \E t \in Threads :
    /\ pc[t] # "idle" /\ ~isWrite[t] /\ attempt[t] = 1
    /\ Len(obs[t]) >= 1
    /\ obs[t][1].src >= 1
    /\ valEpoch_[obs[t][1].cell] > epoch[t]

\* C3 (as claimed): after all the incrementing writers have returned, the
\* cell holds the number of write transactions executed.
NoLostIncrement ==
  (scenario = "multi" /\ \A t \in Threads : Finished(t))
    => val_["x"] = Len(Prog("t1")) + Len(Prog("t2")) + Len(Prog("t3"))

\* C4: with a single incrementing writer and concurrent readers, the cell
\* holds k whenever the writer has returned from its k-th transaction.
SingleWriterIncrements ==
  (scenario = "single" /\ pc["t1"] = "idle")
    => val_["x"] = txi["t1"] - 1

\* C4 witness: the writer has returned from all its transactions and a
\* concurrent reader went through its fallback meanwhile.
SingleWriterWitness ==
  /\ scenario = "single"
  /\ Finished("t1")
  /\ txi["t1"] - 1 = NIters
  /\ readRetries_ >= 1

\* C5 (as claimed): in c = 5; c.get(); c = 7; c.get() the first get returns 5
\* and the second returns 7.
ReadYourOwnWrites ==
  (scenario = "ryow" /\ pc["t1"] # "idle")
    => /\ Len(obs["t1"]) >= 1 => obs["t1"][1].val = 5
       /\ Len(obs["t1"]) >= 2 => obs["t1"][2].val = 7

\* C6 (as claimed): two sets of one cell in one write transaction leave one
\* pending entry holding the second value, and the commit publishes it.
LaterSetWins ==
  scenario = "ryow" =>
    /\ (pc["t1"] = "thunk" /\ ip["t1"] > 3 /\ attempt["t1"] = 1)
         => pendingWrites["t1"]["x"] = 7
    /\ pc["t1"] = "w_unlock" => val_["x"] = 7

\* C7 (as claimed): after any transaction has returned to its caller, also by
\* a user exception, tctx.ctx is null and both pending sets are empty.
StateHygiene ==
  \A t \in Threads :
    pc[t] = "idle"
      => /\ ctx[t] = "null"
         /\ pendingReads[t] = {}
         /\ DOMAIN pendingWrites[t] = {}

\* C8 (as claimed): two write transactions that ran concurrently and touch a
\* common cell that one of them writes: one of them incremented writeRetries_.
NoSilentConflict ==
  \A t, u \in Threads :
    (/\ t # u
     /\ ReturnedFromWrite(t) /\ ReturnedFromWrite(u)
     /\ u \in overlapped[t] /\ t \in overlapped[u]
     /\ \/ Written(LastTx(t).thunk) \cap Touched(LastTx(u).thunk) # {}
        \/ Written(LastTx(u).thunk) \cap Touched(LastTx(t).thunk) # {})
      => (retried[t] \/ retried[u])

\* C8 (amended): a write transaction that returns normally after another
\* transaction published a cell of its read or write set between its
\* start-epoch load and its validation has incremented writeRetries_; it
\* never commits on its first attempt.
ConflictForcesRetry ==
  \A u \in Threads :
    /\ (ReturnedFromWrite(u) /\ conflictSeen[u] \cap Touched(LastTx(u).thunk) # {})
         => retried[u]
    /\ (InWriteTx(u) /\ attempt[u] = 1 /\ pc[u] \in {"commit", "commit_val", "w_unlock"})
         => conflictSeen[u] \cap (pendingReads[u] \cup DOMAIN pendingWrites[u]) = {}

\* C8 witness: a transaction that read x returned after a concurrent writer
\* published x under it, and it went through the retry.
ConflictWitness ==
  /\ scenario = "rw"
  /\ ReturnedFromWrite("t1")
  /\ "x" \in conflictSeen["t1"]
  /\ retried["t1"]

\* C9: epoch_ equals the number of write transactions that have committed:
\* those that returned normally plus those between their epoch store and
\* their return.  Reads and failed attempts leave it alone.
EpochCountsCommits ==
  epoch_ = nReturned + Cardinality({t \in Threads : pc[t] = "w_unlock"})

\* C9 witness: commits of both kinds (first attempt and retry) and a commit
\* with an empty write set have advanced the epoch.
EpochWitness ==
  /\ scenario = "rw"
  /\ \A t \in Threads : Finished(t)
  /\ writeRetries_ >= 1
  /\ writeRetries_ < nReturned
  /\ epoch_ = 3

\* C10: no step of the optimistic execution of a write transaction, up to and
\* including a failed validation and the increment of writeRetries_, changes
\* a cell's value, a cell's write epoch or the global epoch.
FailedAttemptLeavesNoTrace ==
  [][\A t \in Threads :
       (/\ InWriteTx(t) /\ attempt[t] = 1
        /\ pc[t] \in {"thunk", "get_epoch", "w_validate", "w_unlock_fail",
                      "w_retry", "w_retry_lock"}
        /\ (pc'[t] # pc[t] \/ ip'[t] # ip[t]))
         => UNCHANGED <<val_, valEpoch_, epoch_>>]_vars

\* C10 witness: a write attempt with a pending write has failed its
\* validation and is about to increment writeRetries_.
FailedAttemptWitness ==
  \E t \in Threads :
    /\ pc[t] = "w_retry"
    /\ DOMAIN pendingWrites[t] # {}
    /\ \E c \in DOMAIN pendingWrites[t] : val_[c] # pendingWrites[t][c]

\* C11: a write transaction whose first attempt failed (by an abort in a get
\* or by its validation) touches a cell that a commit had stamped when it
\* loaded its start epoch, or stamped before its attempt ended; a write
\* transaction that touches no such cell commits on its first attempt, and
\* writers over disjoint cells leave writeRetries_ at 0.
NonConflictingWritesCommitFirst ==
  /\ \A u \in Threads :
       (isWrite[u] /\ (retried[u] \/ pc[u] \in {"w_unlock_fail", "w_retry"}))
         => conflictSeen[u] \cap Touched(TxThunk(u)) # {}
  /\ scenario = "disjoint" => writeRetries_ = 0

\* C11 witness: a writer of x has committed on its first attempt although a
\* writer of y published y during that attempt.
DisjointWritersWitness ==
  /\ scenario = "disjoint"
  /\ ReturnedFromWrite("t1")
  /\ ~retried["t1"]
  /\ conflictSeen["t1"] = {"y"}
  /\ val_["x"] >= 1 /\ val_["y"] = 1

\* C12: a read transaction that has gone to its fallback (it is about to
\* increment readRetries_, or waits for, or holds mu_ in shared mode) reads a
\* cell that a commit had stamped when the start epoch was loaded or stamped
\* during the optimistic execution; when it enters the handler the cell of the
\* failing get carries a write epoch above the start epoch.  A reader of
\* cells nobody commits to never leaves its first attempt.
ReadersBlockOnlyOnConflict ==
  /\ \A t \in Threads :
       (pc[t] # "idle" /\ ~isWrite[t])
         => /\ (pc[t] \in {"r_retry", "r_lock_shared", "r_reload"} \/ attempt[t] = 2)
                 => conflictSeen[t] \cap Touched(CurThunk(t)) # {}
            /\ pc[t] = "r_retry" => valEpoch_[CurOp(t).cell] > epoch[t]
            /\ t \in muShared => (pc[t] = "r_reload" \/ attempt[t] = 2)
  /\ \A t \in muShared : conflictSeen[t] \cap Touched(TxThunk(t)) # {}
  /\ scenario = "disjoint" => (readRetries_ > 0 => "y" \in conflictSeen["t3"])

\* C12 witness: a reader of y has returned from its first attempt, without
\* the lock, although a writer published x while it ran.
NonBlockingReadWitness ==
  /\ scenario = "disjoint"
  /\ pc["t3"] = "idle" /\ lastExit["t3"] = "normal"
  /\ attempt["t3"] = 1
  /\ conflictSeen["t3"] = {"x"}
  /\ readRetries_ = 0
  /\ val_["x"] >= 1

\* C13: while a thunk is re-executed under the lock, every cell's write epoch
\* is at most the reloaded start epoch, so no get of the re-execution throws;
\* no abort signal ever leaves readTx or writeTx, and the retry counters never
\* exceed the number of invocations entered.
FallbackNeverAborts ==
  /\ \A t \in Threads :
       /\ lastExit[t] # "abort_signal"
       /\ (pc[t] \in {"thunk", "get_epoch"} /\ attempt[t] = 2)
            => \A c \in Cells : valEpoch_[c] <= epoch[t]
  /\ readRetries_ + writeRetries_ <= Entered("t1") + Entered("t2") + Entered("t3")

\* C13 witness: a reader on its re-execution was handed the value of the
\* latest commit, the one its start epoch was reloaded from, after a writer
\* went through its own retry.
FallbackWitness ==
  \E t \in Threads :
    /\ ~isWrite[t] /\ pc[t] = "thunk" /\ attempt[t] = 2
    /\ Len(obs[t]) >= 1
    /\ obs[t][1].src = epoch[t]
    /\ epoch[t] >= 2
    /\ writeRetries_ >= 1

\* C14: with thunks that throw no exception of their own and threads that
\* keep running, every thread eventually has returned from all the readTx and
\* writeTx invocations of its program: no run stops, or goes on for ever, in
\* a state where some invocation has not returned.
EveryTransactionReturns ==
  <>(\A t \in Threads : Finished(t))

\* C14 witness: all the threads have finished although readers and writers
\* went through their fallbacks under the lock.
ProgressWitness ==
  /\ \A t \in Threads : Finished(t)
  /\ readRetries_ >= 1
  /\ writeRetries_ >= 1
  /\ muExcl = "none" /\ muShared = {}

\* C15 (as claimed): whenever no thread is inside a transaction, the cells
\* hold what the thunks of the committed write transactions leave when they
\* are run one at a time, atomically, in the order of their commit epochs.
SerializableInEpochOrder ==
  (\A t \in Threads : pc[t] = "idle") => val_ = serialVal

\* C16 (as claimed): on the re-execution of a write thunk, a get of a cell
\* that the re-execution has not set yet returns the cell's committed value,
\* never a pending value: the re-execution starts from empty pending sets.
RetryReadsCommittedValues ==
  \A t \in Threads :
    (InWriteTx(t) /\ attempt[t] = 2)
      => \A k \in 1..Len(obs[t]) :
           obs[t][k].own
             => obs[t][k].cell \in
                  Written(SubSeq(CurThunk(t), 1, GetPosition(CurThunk(t), k) - 1))

\* C17: every step that changes a cell's value, a cell's write epoch or the
\* global epoch is a step of the commit of the thread that holds mu_
\* exclusively, taken while nobody holds mu_ in shared mode; and every thread
\* in its commit phase is that exclusive holder, so there is at most one.
StoresUnderExclusiveLock ==
  [][/\ (val_' # val_ \/ valEpoch_' # valEpoch_ \/ epoch_' # epoch_)
          => /\ muExcl # "none"
             /\ muShared = {}
             /\ pc[muExcl] \in {"commit", "commit_val"}
             /\ pc'[muExcl] # pc[muExcl]
     /\ \A t \in Threads :
          pc[t] \in {"w_validate", "commit", "commit_val", "w_unlock"}
            => muExcl = t]_vars

\* C17 witness: a committer is between its two stores to a cell while a
\* reader waits for the shared lock and another writer for the exclusive one.
ExclusiveCommitWitness ==
  \E t, u, w \in Threads :
    /\ pc[t] = "commit_val" /\ muExcl = t
    /\ pc[u] = "r_lock_shared"
    /\ AtThunkEnd(w) /\ isWrite[w] /\ attempt[w] = 1

\* C18: no step lowers a cell's write epoch, and a step that changes it is a
\* commit's stamp: the new write epoch is the committer's commit epoch (the
\* global epoch + 1), strictly greater than the write epoch the cell had.
WriteEpochsMonotone ==
  [][\A c \in Cells :
       /\ valEpoch_'[c] >= valEpoch_[c]
       /\ valEpoch_'[c] # valEpoch_[c]
            => \E t \in Threads :
                 /\ pc[t] = "commit" /\ c \in cursor[t]
                 /\ valEpoch_'[c] = epoch[t]
                 /\ epoch[t] = epoch_ + 1
                 /\ epoch[t] > valEpoch_[c]]_vars

\* C18 witness: a retry commit has just stamped a cell that an earlier commit
\* had stamped, with a commit epoch of at least 2.
RestampWitness ==
  \E t \in Threads :
    /\ pc[t] = "commit_val" /\ attempt[t] = 2
    /\ valSrc[FirstCell(cursor[t])] >= 1
    /\ valEpoch_[FirstCell(cursor[t])] = epoch[t]
    /\ epoch[t] >= 2

\* C19: when a get has loaded a cell's value and is about to load the cell's
\* write epoch, the write epoch is at least the epoch of the commit that
\* published the loaded value: the epoch load returns an epoch >= e.
NewValueImpliesNewEpoch ==
  \A t \in Threads :
    pc[t] = "get_epoch" => valEpoch_[CurOp(t).cell] >= ld[t].src

\* C19 witness: an optimistic get has loaded the value that a commit still
\* in progress has published, a value newer than the get's start epoch.
NewValueWitness ==
  \E t, w \in Threads :
    /\ pc[t] = "get_epoch" /\ attempt[t] = 1
    /\ pc[w] = "commit" /\ cursor[w] # {}
    /\ ld[t].src = epoch[w]
    /\ ld[t].src > epoch[t]

\* C20 (as claimed): a thread that is outside readTx and writeTx, having
\* left by a normal return or by an exception of the thunk, holds mu_ neither
\* exclusively nor in shared mode.
LockNeverLeaked ==
  \A t \in Threads :
    pc[t] = "idle" => (muExcl # t /\ t \notin muShared)

=============================================================================
